---------------------------- MODULE Spec2Model ----------------------------
(***************************************************************************)
(* NSESolver.ipynb: the three-species nuclear statistical equilibrium      *)
(* solver get_Xs(rho, T, yp), the helpers X, mu, mualpha it calls, the     *)
(* residual system LS and the scipy fsolve call it hands the guess to.     *)
(*                                                                         *)
(* Numbers.  The notebook computes in IEEE double precision.  Here a       *)
(* number is a decimal floating-point value <<m, e>> standing for          *)
(* m * 10^e, with a six-digit mantissa (100000 <= |m| <= 999999, or        *)
(* m = 0), the exponent range of a double (overflow above about 1e308,     *)
(* underflow to zero below about 1e-324) and the three non-finite values   *)
(* of a double.  Every arithmetic operator rounds its result to six        *)
(* digits, so tolerances are stated at 1e-3: above the rounding of this    *)
(* arithmetic, and below every violation reported.                         *)
(***************************************************************************)
EXTENDS Integers, Sequences, FiniteSets, TLC

-----------------------------------------------------------------------------
(* Floating point arithmetic: the float and numpy.float64 operators that   *)
(* the notebook's expressions use.                                         *)

\* The one element of a singleton.  Operators below take their arguments
\* through it, The({e(a) : a \in {a0}}), so that each is evaluated once.
The(S) == CHOOSE r \in S : TRUE

\* The exponent field that marks the non-finite values.
SpecialE == 100000

NaN == <<0, SpecialE>>
PInf == <<1, SpecialE>>
NInf == <<-1, SpecialE>>
Zero == <<0, 0>>

IsNaN(a) == a = NaN
IsFinite(a) == a[2] # SpecialE
Sgn(n0) ==
    The({(
        IF n > 0 THEN 1 ELSE IF n < 0 THEN -1 ELSE 0
        ) : n \in {n0}})
Abs(n0) ==
    The({(
        IF n < 0 THEN -n ELSE n
        ) : n \in {n0}})
Inf(s) == IF s < 0 THEN NInf ELSE PInf

\* Largest and smallest decimal exponents of a double: 1.8e308 and 4.9e-324.
MaxExp10 == 308
MinExp10 == -324

\* Half the smallest positive double, 2.47033e-324: what lies below rounds to 0.
HalfMinMantissa == 247033

NumDigits(n0) ==
    The({(
        IF n < 10 THEN 1 ELSE IF n < 100 THEN 2 ELSE IF n < 1000 THEN 3
        ELSE IF n < 10000 THEN 4 ELSE IF n < 100000 THEN 5
        ELSE IF n < 1000000 THEN 6 ELSE IF n < 10000000 THEN 7
        ELSE IF n < 100000000 THEN 8 ELSE IF n < 1000000000 THEN 9 ELSE 10
        ) : n \in {n0}})

\* s * m * 10^e with 100000 <= m <= 999999, brought into the range of a double.
InRange(s0, m0, e0) ==
    The({(
        IF e + 5 > MaxExp10 THEN Inf(s)
        ELSE IF e + 5 < MinExp10 \/ (e + 5 = MinExp10 /\ m < HalfMinMantissa) THEN Zero
        ELSE <<s * m, e>>
        ) : s \in {s0}, m \in {m0}, e \in {e0}})

\* M without its last k digits, rounded half up.
RoundOff(M0, k0) ==
    The({(
        (M \div (10 ^ k)) +
        (IF (M % (10 ^ k)) \div (10 ^ (k - 1)) >= 5 THEN 1 ELSE 0)
        ) : M \in {M0}, k \in {k0}})

\* s * R * 10^e for a rounded mantissa R, which rounding may have carried
\* to 1000000.
Carry(s0, R0, e0) ==
    The({(
        IF R >= 1000000 THEN InRange(s, 100000, e + 1) ELSE InRange(s, R, e)
        ) : s \in {s0}, R \in {R0}, e \in {e0}})

\* s * M * 10^E for an M of d digits, brought to six digits.
NormDigits(s0, M0, E0, d0) ==
    The({(
        IF d > 6 THEN Carry(s, RoundOff(M, d - 6), E + (d - 6))
        ELSE InRange(s, M * (10 ^ (6 - d)), E - (6 - d))
        ) : s \in {s0}, M \in {M0}, E \in {E0}, d \in {d0}})

\* s * M * 10^E (M >= 0) rounded to six significant digits.
Norm(s0, M0, E0) ==
    The({(
        IF M = 0 \/ s = 0 THEN Zero ELSE NormDigits(s, M, E, NumDigits(M))
        ) : s \in {s0}, M \in {M0}, E \in {E0}})

\* The decimal literal m * 10^e.
Dec(m0, e0) ==
    The({(
        Norm(Sgn(m), Abs(m), e)
        ) : m \in {m0}, e \in {e0}})

FNeg(a0) ==
    The({(
        <<-a[1], a[2]>>
        ) : a \in {a0}})

\* a * b \div 1000 for 0 <= a, b < 10^6, without leaving 32 bits.
MulShift3(a0, b0) ==
    The({(
        a * (b \div 1000) + ((a * (b % 1000)) \div 1000)
        ) : a \in {a0}, b \in {b0}})

FMul(a0, b0) ==
    The({(
        IF IsNaN(a) \/ IsNaN(b) THEN NaN
        ELSE IF ~IsFinite(a) \/ ~IsFinite(b)
             THEN IF a[1] = 0 \/ b[1] = 0 THEN NaN ELSE Inf(Sgn(a[1]) * Sgn(b[1]))
        ELSE Norm(Sgn(a[1]) * Sgn(b[1]), MulShift3(Abs(a[1]), Abs(b[1])),
                  a[2] + b[2] + 3)
        ) : a \in {a0}, b \in {b0}})

\* The first k + 1 digits of n / d for 0 < n, d < 10^6, by long division.
RECURSIVE LongDiv(_, _, _)
LongDiv(n0, d0, k0) ==
    The({(
        IF k = 0 THEN n \div d
        ELSE (n \div d) * (10 ^ k) + LongDiv((n % d) * 10, d, k - 1)
        ) : n \in {n0}, d \in {d0}, k \in {k0}})

\* numpy division: x/0 is an infinity (0/0 a NaN) with a RuntimeWarning.
FDiv(a0, b0) ==
    The({(
        IF IsNaN(a) \/ IsNaN(b) THEN NaN
        ELSE IF ~IsFinite(a)
             THEN IF ~IsFinite(b) THEN NaN
                  ELSE Inf(Sgn(a[1]) * (IF b[1] < 0 THEN -1 ELSE 1))
        ELSE IF ~IsFinite(b) THEN Zero
        ELSE IF b[1] = 0 THEN (IF a[1] = 0 THEN NaN ELSE Inf(Sgn(a[1])))
        ELSE Norm(Sgn(a[1]) * Sgn(b[1]), LongDiv(Abs(a[1]), Abs(b[1]), 7),
                  a[2] - b[2] - 7)
        ) : a \in {a0}, b \in {b0}})

\* hi + lo for nonzero finite hi, lo whose exponents differ by d >= 0.
AddAligned(hi0, lo0, d0) ==
    The({(
        IF d > 8 THEN hi
        ELSE IF d <= 3 THEN Dec(hi[1] * (10 ^ d) + lo[1], lo[2])
        ELSE Dec(hi[1] * 1000 + Sgn(lo[1]) * (Abs(lo[1]) \div (10 ^ (d - 3))),
                 hi[2] - 3)
        ) : hi \in {hi0}, lo \in {lo0}, d \in {d0}})

FAddFinite(a0, b0) ==
    The({(
        IF a[1] = 0 THEN b
        ELSE IF b[1] = 0 THEN a
        ELSE IF a[2] >= b[2] THEN AddAligned(a, b, a[2] - b[2])
        ELSE AddAligned(b, a, b[2] - a[2])
        ) : a \in {a0}, b \in {b0}})

FAdd(a0, b0) ==
    The({(
        IF IsNaN(a) \/ IsNaN(b) THEN NaN
        ELSE IF ~IsFinite(a)
             THEN IF ~IsFinite(b) /\ a # b THEN NaN ELSE a
        ELSE IF ~IsFinite(b) THEN b
        ELSE FAddFinite(a, b)
        ) : a \in {a0}, b \in {b0}})

FSub(a, b) == FAdd(a, FNeg(b))

\* IEEE comparisons: every comparison with a NaN is false.
FLt(a0, b0) ==
    The({(
        IF IsNaN(a) \/ IsNaN(b) THEN FALSE
        ELSE IF a = b THEN FALSE
        ELSE IF a = NInf \/ b = PInf THEN TRUE
        ELSE IF a = PInf \/ b = NInf THEN FALSE
        ELSE FAddFinite(a, FNeg(b))[1] < 0
        ) : a \in {a0}, b \in {b0}})

FGt(a, b) == FLt(b, a)
FLe(a0, b0) ==
    The({(
        ~IsNaN(a) /\ ~IsNaN(b) /\ ~FLt(b, a)
        ) : a \in {a0}, b \in {b0}})
FGe(a, b) == FLe(b, a)
FEq(a0, b0) ==
    The({(
        ~IsNaN(a) /\ ~IsNaN(b) /\ a = b
        ) : a \in {a0}, b \in {b0}})
FAbs(a0) ==
    The({(
        <<Abs(a[1]), a[2]>>
        ) : a \in {a0}})

\* Python's min(a, b): b when b < a, else a.
FMin(a0, b0) ==
    The({(
        IF FLt(b, a) THEN b ELSE a
        ) : a \in {a0}, b \in {b0}})

One == Dec(1, 0)
Two == Dec(2, 0)
Half == Dec(5, -1)

\* Integer square root.
RECURSIVE ISqrtBetween(_, _, _)
ISqrtBetween(n0, lo0, hi0) ==
    The({(
        IF lo >= hi THEN lo
        ELSE IF ((lo + hi + 1) \div 2) * ((lo + hi + 1) \div 2) <= n
             THEN ISqrtBetween(n, (lo + hi + 1) \div 2, hi)
        ELSE ISqrtBetween(n, lo, ((lo + hi + 1) \div 2) - 1)
        ) : n \in {n0}, lo \in {lo0}, hi \in {hi0}})

ISqrt(n0) ==
    The({(
        ISqrtBetween(n, 0, 46340)
        ) : n \in {n0}})

\* One Newton step for the square root of a from the estimate s.
NewtonStep(a0, s0) ==
    The({(
        FMul(Half, FAdd(s, FDiv(a, s)))
        ) : a \in {a0}, s \in {s0}})

\* Square root: the integer root of the mantissa, then one Newton step.
FSqrt(a0) ==
    The({(
        IF IsNaN(a) \/ a[1] < 0 THEN NaN
        ELSE IF ~IsFinite(a) \/ a[1] = 0 THEN a
        ELSE IF a[2] % 2 = 0
             THEN NewtonStep(a, Norm(1, ISqrt(a[1] * 100), (a[2] - 2) \div 2))
        ELSE NewtonStep(a, Norm(1, ISqrt(a[1] * 1000), (a[2] - 3) \div 2))
        ) : a \in {a0}})

\* x ** 1.5 (numpy: NaN for a negative base).
Pow15(a0) ==
    The({(
        FMul(a, FSqrt(a))
        ) : a \in {a0}})

\* ln 2 and ln 10 in units of 1e-5.
Ln2e5 == 69315
Ln10e5 == 230259

\* a * b \div 100000 for 0 <= a, b < 200000, without leaving 32 bits.
MulShift5(a0, b0) ==
    The({(
        MulShift3(a, b) \div 100
        ) : a \in {a0}, b \in {b0}})

\* The halvings that bring a mantissa m into [100000, 200000).
Halvings(m0) ==
    The({(
        IF m < 200000 THEN 0 ELSE IF m < 400000 THEN 1
        ELSE IF m < 800000 THEN 2 ELSE 3
        ) : m \in {m0}})

\* 2 * atanh(z) by its series z + z^3/3 + ... + z^9/9, from z and z^2 in
\* units of 1e-5.
Atanh2(z0, z20) ==
    The({(
        2 * MulShift5(z, 100000 + MulShift5(z2, 33333 + MulShift5(z2,
                20000 + MulShift5(z2, 14286 + MulShift5(z2, 11111)))))
        ) : z \in {z0}, z2 \in {z20}})

\* ln(m / c) for c <= m < 2c in units of 1e-5, with z = (m - c)/(m + c).
LnRatio(z0) ==
    The({(
        Atanh2(z, MulShift5(z, z))
        ) : z \in {z0}})

\* ln(m / 100000) in units of 1e-5, given the halvings k of m.
LnMantissa(m0, k0) ==
    The({(
        LnRatio(((m - 100000 * (2 ^ k)) * 1000) \div ((m + 100000 * (2 ^ k)) \div 100))
        + k * Ln2e5
        ) : m \in {m0}, k \in {k0}})

\* numpy.log: -inf at 0 and NaN below 0, each with a RuntimeWarning.  For a
\* finite a = m * 10^e > 0: halve m/100000 into [1, 2), take
\* 2*atanh((y-1)/(y+1)) by its series, and add the logarithms of the powers
\* of 2 and 10 taken out.
Ln(a0) ==
    The({(
        IF IsNaN(a) \/ a[1] < 0 THEN NaN
        ELSE IF a = PInf THEN PInf
        ELSE IF a[1] = 0 THEN NInf
        ELSE Dec(LnMantissa(a[1], Halvings(a[1])) + (a[2] + 5) * Ln10e5, -5)
        ) : a \in {a0}})

\* A finite a below 100 in magnitude, in units of 1e-5.
Fixed5(a0) ==
    The({(
        IF a[1] = 0 \/ a[2] < -13 THEN 0
        ELSE IF a[2] >= -5 THEN a[1] * (10 ^ (a[2] + 5))
        ELSE Sgn(a[1]) * (Abs(a[1]) \div (10 ^ (-5 - a[2])))
        ) : a \in {a0}})

\* E * E in units of 1e-5.
Square5(E0) ==
    The({(
        MulShift5(E, E)
        ) : E \in {E0}})

\* exp(h) for 0 <= h < ln(2)/4 by its Taylor series to h^5/120, in units
\* of 1e-5.
ExpSeries(h0) ==
    The({(
        100000 + MulShift5(h, 100000 + (MulShift5(h, 100000 + (MulShift5(h,
            100000 + (MulShift5(h, 100000 + (h \div 5)) \div 4)) \div 3)) \div 2))
        ) : h \in {h0}})

\* exp(x) for x in units of 1e-5.
ExpFixed(x0) ==
    The({(
        Norm(1, Square5(Square5(ExpSeries(((x % Ln10e5) % Ln2e5) \div 4)))
                * (2 ^ ((x % Ln10e5) \div Ln2e5)),
             (x \div Ln10e5) - 5)
        ) : x \in {x0}})

\* numpy.exp: inf on overflow, 0 on underflow.  For a finite a: split a into
\* k*ln 10 + j*ln 2 + r, sum the Taylor series of exp(r/4), square twice and
\* scale by 2^j 10^k.
Exp(a0) ==
    The({(
        IF IsNaN(a) THEN NaN
        ELSE IF a = PInf THEN PInf
        ELSE IF a = NInf THEN Zero
        ELSE IF a[1] # 0 /\ a[2] >= -2 THEN (IF a[1] > 0 THEN PInf ELSE Zero)
        ELSE ExpFixed(Fixed5(a))
        ) : a \in {a0}})
-----------------------------------------------------------------------------
(* The notebook's module-level constants and helper functions.             *)

mamuc2 == Dec(931494, -3)
mamu_grams == Dec(166054, -29)
Navo == Dec(602214, 18)
kB == One
hc == Dec(124, -12)
Pi == Dec(314159, -5)
Balpha == Dec(283, -1)

\* The quantum concentration both X and mu compute first:
\* (2*np.pi*T*A*mamuc2/hc**2)**(1.5).
nQ(T, A) ==
    Pow15(FDiv(FMul(FMul(FMul(FMul(Two, Pi), T), A), mamuc2), FMul(hc, hc)))

\* X(xmu,xA,xrho,xT): xA/(xrho*Navo)*nQ*np.exp(xmu/xT).
X(xmu, xA, xrho, xT) ==
    FMul(FMul(FDiv(xA, FMul(xrho, Navo)), nQ(xT, xA)), Exp(FDiv(xmu, xT)))

\* mualpha(mun,mup): 2*mun+2*mup+28.3.
mualpha(mun, mup) == FAdd(FAdd(FMul(Two, mun), FMul(Two, mup)), Balpha)

\* The argument mu hands to np.log.
LogArg(T, n, A) == FDiv(n, nQ(T, A))

\* mu(T,n,A): T*np.log(n/nQ).
mu(T, n, A) == FMul(T, Ln(LogArg(T, n, A)))
-----------------------------------------------------------------------------
(* get_Xs: guess construction (lines 114-133).                             *)

Four == Dec(4, 0)
Cap == Dec(1, -2)
\* The offset of line 130, and what it would be were the branch the mirror
\* image of line 124.
EpsHalf == Dec(5, -1)
Eps499 == Dec(499, -3)

\* The five locals once both densities and both nucleon potentials are bound:
\* mualphaguess = mualpha(munguess,mupguess) (lines 118, 127, 133).
Locals(np0, nn0, mp0, mn0) ==
    The({(
        [npguess |-> np, nnguess |-> nn, mupguess |-> mp, munguess |-> mn,
         mualphaguess |-> mualpha(mn, mp)]
        ) : np \in {np0}, nn \in {nn0}, mp \in {mp0}, mn \in {mn0}})

\* mupguess = mu(T,npguess,1) and munguess = mu(T,nnguess,1) from the two
\* densities (lines 116-117, 125-126, 131-132).
Potentials(np0, nn0, T0) ==
    The({(
        Locals(np, nn, mu(T, np, One), mu(T, nn, One))
        ) : np \in {np0}, nn \in {nn0}, T \in {T0}})

\* The first guess: all baryons are free nucleons (lines 114-118).
BaselineGuess(rho, T, yp) ==
    Potentials(FDiv(FMul(yp, rho), mamu_grams),
               FDiv(FMul(FSub(One, yp), rho), mamu_grams), T)

\* The test of line 120 on the locals g, and the same test taken against the
\* proton potential.
StiffAgainstProton(g) == FGt(g.mualphaguess, g.mupguess)
Stiff(g) == FGt(g.mualphaguess, g.munguess)

\* Lines 123-126 without line 127: mualphaguess keeps its baseline value.
StaleAlphaLow(g, rho, T, yp) ==
    [Potentials(FDiv(FMul(FMin(Cap, yp), rho), mamu_grams),
                FDiv(FMul(FMul(Two, FSub(Half, yp)), rho), mamu_grams), T)
        EXCEPT !.mualphaguess = g.mualphaguess]

\* The branch yp < 0.5 (lines 123-127) rebinding the locals g.
AlphaGuessLow(g, rho, T, yp) ==
    Potentials(FDiv(FMul(FMin(Cap, yp), rho), mamu_grams),
               FDiv(FMul(FMul(Two, FSub(Half, yp)), rho), mamu_grams), T)

\* The branch yp >= 0.5 (lines 129-133) rebinding the locals g.
AlphaGuessHigh(g, rho, T, yp) ==
    Potentials(FDiv(FMul(FMul(Two, FSub(yp, Eps499)), rho), mamu_grams),
               FDiv(FMul(FMin(Cap, FSub(One, yp)), rho), mamu_grams), T)

\* The two arguments np.log receives while the locals g are computed.
LogArgsOf(g0, T0) ==
    The({(
        {LogArg(T, g.npguess, One), LogArg(T, g.nnguess, One)}
        ) : g \in {g0}, T \in {T0}})

\* The list [mupguess,munguess,mualphaguess] of line 140.
SeedOf(g0) ==
    The({(
        <<g.mupguess, g.munguess, g.mualphaguess>>
        ) : g \in {g0}})

-----------------------------------------------------------------------------
(* The residual system LS (lines 135-138) and the mass fractions returned  *)
(* (lines 142-146).  x[1], x[2], x[3] are the notebook's x[0], x[1], x[2].  *)

LS(x0, rho, T, yp) ==
    The({(
        <<FSub(FSub(FSub(One, X(x[1], One, rho, T)), X(x[2], One, rho, T)),
               X(x[3], Four, rho, T)),
          FSub(FSub(yp, X(x[1], One, rho, T)), FDiv(X(x[3], Four, rho, T), Two)),
          FSub(x[3], mualpha(x[2], x[1]))>>
        ) : x \in {x0}})

MassFractions(values, rho, T) ==
    <<X(values[1], One, rho, T), X(values[2], One, rho, T),
      X(values[3], Four, rho, T)>>
-----------------------------------------------------------------------------
(* scipy.optimize.fsolve(LS, seed) (line 140): MINPACK's hybrd with        *)
(* scipy's defaults.  The notebook passes neither maxfev nor full_output,   *)
(* so the evaluation budget is 200*(n+1) for the n = 3 unknowns, and the    *)
(* status ier is dropped: fsolve returns its last iterate whatever ier is   *)
(* (for ier # 1 it only emits a RuntimeWarning).                            *)

NUnknowns == 3
MaxfevPerUnknown == 200
maxfev == MaxfevPerUnknown * (NUnknowns + 1)

\* hybrd gives up (ier = 5) after this many iterations without progress.
NSlowMax == 10

\* The residual a converged solve leaves, in this arithmetic.
SolveTol == Dec(1, -3)

AllFinite(r0) ==
    The({(
        \A i \in 1..3 : IsFinite(r[i])
        ) : r \in {r0}})

IsRoot(x, rho, T, yp) ==
    \E r \in {LS(x, rho, T, yp)} :
        AllFinite(r) /\ \A i \in 1..3 : FLe(FAbs(r[i]), SolveTol)

\* The potentials at which the scarcer nucleon has free mass fraction m and
\* R1, R3 hold once R2 does: Xalpha = 2*(yp - Xp) leaves Xn - Xp = 1 - 2*yp.
PointAt(m0, rho0, T0, yp0) ==
    The({(
        SeedOf(Potentials(
            FDiv(FMul(IF FLe(yp, Half) THEN m
                      ELSE FSub(m, FSub(One, FMul(Two, yp))), rho), mamu_grams),
            FDiv(FMul(IF FLe(yp, Half) THEN FAdd(FSub(One, FMul(Two, yp)), m)
                      ELSE m, rho), mamu_grams), T))
        ) : m \in {m0}, rho \in {rho0}, T \in {T0}, yp \in {yp0}})

\* Along PointAt the residual R2 falls from positive to negative as m runs
\* over (0, min(yp, 1-yp)): m lies below the solution while R2 > 0.
Below(M0, e0, rho0, T0, yp0) ==
    The({(
        FGt(LS(PointAt(Dec(M, e), rho, T, yp), rho, T, yp)[2], Zero)
        ) : M \in {M0}, e \in {e0}, rho \in {rho0}, T \in {T0}, yp \in {yp0}})

\* The decimal exponents searched for the solution's m.
RootExps == -30 .. -1

\* The largest of a set of integers.
MaxOf(S0) ==
    The({(
        CHOOSE d \in S : \A o \in S : o <= d
        ) : S \in {S0}})

\* The mantissa M of m = M * 10^e, with its digit at 10^p raised as far as m
\* stays below the solution.
Digit(M0, p0, e0, rho0, T0, yp0) ==
    The({(
        M + (10 ^ p) * MaxOf({d \in 0 .. 9 : Below(M + d * (10 ^ p), e, rho, T, yp)})
        ) : M \in {M0}, p \in {p0}, e \in {e0}, rho \in {rho0}, T \in {T0},
            yp \in {yp0}})

\* The digits at 10^p down to 10^0, one after the other.
RECURSIVE Digits(_, _, _, _, _, _)
Digits(M0, p0, e0, rho0, T0, yp0) ==
    The({(
        IF p = 0 THEN Digit(M, 0, e, rho, T, yp)
        ELSE Digits(Digit(M, p, e, rho, T, yp), p - 1, e, rho, T, yp)
        ) : M \in {M0}, p \in {p0}, e \in {e0}, rho \in {rho0}, T \in {T0},
            yp \in {yp0}})

\* m = M * 10^e with the six digits of M found from the leading one on.
RootIn(e0, rho0, T0, yp0) ==
    The({(
        PointAt(Dec(Digits(100000, 5, e, rho, T, yp), e), rho, T, yp)
        ) : e \in {e0}, rho \in {rho0}, T \in {T0}, yp \in {yp0}})

\* The exponents at which m = 10^e lies below the solution.
ExpsBelow(rho0, T0, yp0) ==
    The({(
        {e \in RootExps : Below(1, e, rho, T, yp)}
        ) : rho \in {rho0}, T \in {T0}, yp \in {yp0}})

\* The solution, given the exponents E at which 10^e lies below it.
RootFrom(E0, rho0, T0, yp0) ==
    The({(
        IF E = {} THEN PointAt(FMin(yp, FSub(One, yp)), rho, T, yp)
        ELSE RootIn(MaxOf(E) - 5, rho, T, yp)
        ) : E \in {E0}, rho \in {rho0}, T \in {T0}, yp \in {yp0}})

\* The solution of LS(x) = 0 to six digits of m: its decimal exponent, then
\* its digits one by one.  Where R2 is positive at no m searched (it is not
\* where the alpha fraction overflows), there is none and the end of the
\* range is returned.
Root(rho, T, yp) == RootFrom(ExpsBelow(rho, T, yp), rho, T, yp)

\* An iterate between the seed and the solution.
Halfway(seed0, root0) ==
    The({(
        <<FMul(Half, FAdd(seed[1], root[1])), FMul(Half, FAdd(seed[2], root[2])),
          FMul(Half, FAdd(seed[3], root[3]))>>
        ) : seed \in {seed0}, root \in {root0}})

\* The iterate hybrd holds after k successful steps.
IterateAt(seed, root, k) ==
    IF k = 0 THEN seed ELSE IF k = 1 THEN Halfway(seed, root) ELSE root

\* hybrd can leave its starting point only from finite residuals (a step from
\* a non-finite residual is never accepted), and converges only on a solution.
CanMove(seed, target, rho, T, yp) ==
    AllFinite(LS(seed, rho, T, yp)) /\ IsRoot(target, rho, T, yp)

\* hybrd's evaluation counter.
CountEval(nfev) == nfev + 1

\* The model follows a solve for at most this many evaluations.
MaxEvals == 1000

\* hybrd's test of the evaluation budget (info = 2).
NeverExhausted(nfev) == FALSE
Exhausted(nfev) == nfev >= maxfev

\* The <<successful steps, ier>> with which a solve can end: converged
\* (ier = 1), budget spent on the way (ier = 2), or no progress from the
\* starting point (ier = 4 or 5).
SolveOutcomes(canmove) ==
    IF canmove THEN {<<2, 1>>, <<1, 2>>} ELSE {<<0, 4>>, <<0, 5>>}

-----------------------------------------------------------------------------
(* The notebook as a state machine: the module namespace, and the frames   *)
(* of the calls of get_Xs in progress.                                     *)

VARIABLES call, modns

vars == <<call, modns>>

Slots == {1, 2}

\* A name that holds no value yet.
Unbound == <<2, SpecialE>>
UnboundX == <<Unbound, Unbound, Unbound>>

NoLocals ==
    [npguess |-> Unbound, nnguess |-> Unbound, mupguess |-> Unbound,
     munguess |-> Unbound, mualphaguess |-> Unbound]

\* The arguments of a call.  f64 tells numpy.float64 scalars (as the sweep
\* cells pass) from Python floats: they differ in division by zero.
Arg(rho, T, yp, f64) == [rho |-> rho, T |-> T, yp |-> yp, f64 |-> f64]

NoArgs == Arg(Unbound, Unbound, Unbound, TRUE)

Rho11 == Dec(1, 11)
TinyRho == Dec(5, -324)
Quarter == Dec(25, -2)
ThreeQuarters == Dec(75, -2)
Temps == {Dec(1, -2), One, Dec(26, -1)}
Yps == {Quarter, Half, ThreeQuarters}

\* Proton fractions near the ends of (0,1) and between 0.499 and 0.5.
EdgeYps == {Dec(1, -3), Dec(4995, -4), Dec(999, -3)}

ValidPoints ==
    {<<Rho11, T, yp>> : T \in Temps, yp \in Yps} \cup
    {<<Rho11, One, yp>> : yp \in EdgeYps} \cup {<<TinyRho, One, Quarter>>}

InvalidPoints ==
    {<<Rho11, Zero, Quarter>>, <<Rho11, Dec(-1, 0), Quarter>>,
     <<Zero, One, Quarter>>, <<Dec(-1, 11), One, Quarter>>,
     <<Rho11, One, Zero>>, <<Rho11, One, One>>}

\* A negative Python-float T makes nQ complex: that path is left out.
Args ==
    {a \in {Arg(p[1], p[2], p[3], k) : p \in ValidPoints \cup InvalidPoints,
                                       k \in BOOLEAN} :
        a.f64 \/ ~FLt(a.T, Zero)}

\* The arguments of the calls that run side by side.
ParArgs ==
    {Arg(Rho11, Dec(1, -2), yp, TRUE) : yp \in Yps} \cup
    {Arg(Rho11, Dec(26, -1), Quarter, TRUE),
     Arg(Rho11, Dec(26, -1), ThreeQuarters, TRUE),
     Arg(Rho11, Zero, Quarter, FALSE), Arg(Zero, One, Quarter, FALSE)}

\* The values the sweep cells bind to the module-level names rho, T, yp.
SweepPoints == {<<Rho11, One, Quarter>>, <<Rho11, Dec(3, 0), Dec(999, -3)>>}

\* Root at the points the calls are made at, computed once.
RootTable ==
    [p \in ValidPoints \cup InvalidPoints \cup SweepPoints |->
        Root(p[1], p[2], p[3])]

Solution(rho, T, yp) ==
    IF <<rho, T, yp>> \in DOMAIN RootTable THEN RootTable[<<rho, T, yp>>]
    ELSE Root(rho, T, yp)

ModuleConstants ==
    [mamuc2 |-> mamuc2, mamu_grams |-> mamu_grams, Navo |-> Navo, kB |-> kB,
     hc |-> hc, A |-> <<1, 1, 4>>, Z |-> <<0, 1, 2>>,
     B |-> <<Zero, Zero, Balpha>>]

\* A frame: the position in get_Xs, its arguments and locals, and what the
\* call did so far (the locals as the baseline guess left them, the guesses
\* built, the densities and logarithm arguments computed, the fsolve calls
\* made).
IdleCall ==
    [pc |-> "idle", args |-> NoArgs, g |-> NoLocals, base |-> NoLocals,
     built |-> <<>>, dens |-> {}, logargs |-> {}, nsolve |-> 0, seed |-> UnboundX,
     target |-> UnboundX, canmove |-> FALSE, xk |-> 0, nfev |-> 0, nslow |-> 0,
     values |-> UnboundX, ier |-> 0, Xs |-> UnboundX, err |-> "none"]

Init ==
    /\ call = [c \in Slots |-> IdleCall]
    /\ modns = [consts |-> ModuleConstants, rho |-> Unbound, T |-> Unbound,
                yp |-> Unbound]

\* What the names rho, T, yp mean inside get_Xs and its closure LS: the
\* parameters of the call.
GlobalEnv(c) ==
    [rho |-> modns.rho, T |-> modns.T, yp |-> modns.yp, f64 |-> call[c].args.f64]
Env(c) == call[c].args

\* Python float division by zero raises; numpy.float64 division returns inf.
RaisesInMu(a) == ~a.f64 /\ nQ(a.T, One) = Zero
RaisesInX(a) == ~a.f64 /\ FMul(a.rho, Navo) = Zero

\* get_Xs(rho,T,yp) is called.
Call(c, a) ==
    /\ call[c].pc = "idle"
    /\ call' = [call EXCEPT ![c] = [IdleCall EXCEPT !.pc = "called", !.args = a]]
    /\ UNCHANGED modns

\* Lines 114-118 with Python floats and T = 0: the densities are computed,
\* then mu divides by nQ = 0.0.
BaselineRaise(c) ==
    /\ call[c].pc = "called"
    /\ RaisesInMu(Env(c))
    /\ \E b \in {BaselineGuess(Env(c).rho, Env(c).T, Env(c).yp)} :
          call' = [call EXCEPT ![c].pc = "raised",
                               ![c].err = "ZeroDivisionError",
                               ![c].g = [NoLocals EXCEPT !.npguess = b.npguess,
                                                         !.nnguess = b.nnguess],
                               ![c].dens = {b.npguess, b.nnguess}]
    /\ UNCHANGED modns

\* Lines 114-118.
Baseline(c) ==
    /\ call[c].pc = "called"
    /\ ~RaisesInMu(Env(c))
    /\ \E b \in {BaselineGuess(Env(c).rho, Env(c).T, Env(c).yp)} :
          call' = [call EXCEPT ![c].pc = "guessed",
                               ![c].g = b,
                               ![c].base = b,
                               ![c].built = <<"baseline">>,
                               ![c].dens = {b.npguess, b.nnguess},
                               ![c].logargs = LogArgsOf(b, Env(c).T)]
    /\ UNCHANGED modns

\* Lines 120, 122-127.
AlphaLow(c) ==
    /\ call[c].pc = "guessed"
    /\ Stiff(call[c].g)
    /\ FLt(Env(c).yp, Half)
    /\ \E n \in {AlphaGuessLow(call[c].g, Env(c).rho, Env(c).T, Env(c).yp)} :
          call' = [call EXCEPT ![c].pc = "selected",
                               ![c].g = n,
                               ![c].built = Append(@, "low"),
                               ![c].dens = @ \cup {n.npguess, n.nnguess},
                               ![c].logargs = @ \cup LogArgsOf(n, Env(c).T)]
    /\ UNCHANGED modns

\* Lines 120, 128-133.
AlphaHigh(c) ==
    /\ call[c].pc = "guessed"
    /\ Stiff(call[c].g)
    /\ ~FLt(Env(c).yp, Half)
    /\ FGe(Env(c).yp, Half)
    /\ \E n \in {AlphaGuessHigh(call[c].g, Env(c).rho, Env(c).T, Env(c).yp)} :
          call' = [call EXCEPT ![c].pc = "selected",
                               ![c].g = n,
                               ![c].built = Append(@, "high"),
                               ![c].dens = @ \cup {n.npguess, n.nnguess},
                               ![c].logargs = @ \cup LogArgsOf(n, Env(c).T)]
    /\ UNCHANGED modns

\* Line 120 false (or neither comparison of lines 122, 128 true): the
\* locals keep the baseline guess.
KeepBaseline(c) ==
    /\ call[c].pc = "guessed"
    /\ ~(Stiff(call[c].g) /\ (FLt(Env(c).yp, Half) \/ FGe(Env(c).yp, Half)))
    /\ call' = [call EXCEPT ![c].pc = "selected"]
    /\ UNCHANGED modns

\* Line 140 with Python floats and rho = 0: fsolve evaluates LS at the guess,
\* and X divides by xrho*Navo = 0.0.
FsolveRaise(c) ==
    /\ call[c].pc = "selected"
    /\ RaisesInX(Env(c))
    /\ call' = [call EXCEPT ![c].pc = "raised",
                            ![c].err = "ZeroDivisionError",
                            ![c].nsolve = @ + 1,
                            ![c].seed = SeedOf(call[c].g)]
    /\ UNCHANGED modns

\* Line 140: fsolve is entered with the locals as starting point and
\* evaluates LS there.
FsolveStart(c) ==
    /\ call[c].pc = "selected"
    /\ ~RaisesInX(Env(c))
    /\ \E x0 \in {SeedOf(call[c].g)},
          r \in {Solution(Env(c).rho, Env(c).T, Env(c).yp)} :
          call' = [call EXCEPT ![c].pc = "solving",
                               ![c].nsolve = @ + 1,
                               ![c].seed = x0,
                               ![c].target = r,
                               ![c].canmove = CanMove(x0, r, Env(c).rho,
                                                      Env(c).T, Env(c).yp),
                               ![c].xk = 0,
                               ![c].nfev = 1,
                               ![c].nslow = 0]
    /\ UNCHANGED modns

\* hybrd's stopping tests.
Done(s) == s.xk = 2 \/ s.nslow >= NSlowMax \/ Exhausted(s.nfev)

\* One more evaluation of LS inside hybrd: the iterate moves on (possibly
\* onto the solution), or, where it cannot move, the iteration is counted
\* as one without progress.
FsolveEval(c) ==
    /\ call[c].pc = "solving"
    /\ ~Done(call[c])
    /\ call[c].nfev < MaxEvals
    /\ \/ /\ call[c].canmove
          /\ \E k \in {1, 2} :
                call' = [call EXCEPT ![c].xk = k,
                                     ![c].nslow = 0,
                                     ![c].nfev = CountEval(@)]
       \/ /\ ~call[c].canmove
          /\ call' = [call EXCEPT ![c].nslow = @ + 1,
                                  ![c].nfev = CountEval(@)]
    /\ UNCHANGED modns

\* hybrd stops and fsolve returns its last iterate: ier is dropped.
FsolveStop(c) ==
    /\ call[c].pc = "solving"
    /\ Done(call[c])
    /\ \E i \in (IF call[c].xk = 2 THEN {1}
                 ELSE IF call[c].nslow >= NSlowMax THEN {4, 5} ELSE {2}) :
          call' = [call EXCEPT ![c].pc = "solved",
                               ![c].ier = i,
                               ![c].values = IterateAt(call[c].seed,
                                                       call[c].target,
                                                       call[c].xk)]
    /\ UNCHANGED modns

\* Line 140 as one step.
Fsolve(c) ==
    /\ call[c].pc = "selected"
    /\ ~RaisesInX(Env(c))
    /\ \E x0 \in {SeedOf(call[c].g)},
          r \in {Solution(Env(c).rho, Env(c).T, Env(c).yp)} :
          \E m \in {CanMove(x0, r, Env(c).rho, Env(c).T, Env(c).yp)} :
          \E o \in SolveOutcomes(m) :
             call' = [call EXCEPT ![c].pc = "solved",
                                  ![c].nsolve = @ + 1,
                                  ![c].seed = x0,
                                  ![c].target = r,
                                  ![c].canmove = m,
                                  ![c].xk = o[1],
                                  ![c].ier = o[2],
                                  ![c].values = IterateAt(x0, r, o[1])]
    /\ UNCHANGED modns

\* Lines 142-146.
Return(c) ==
    /\ call[c].pc = "solved"
    /\ call' = [call EXCEPT ![c].pc = "returned",
                            ![c].Xs = MassFractions(call[c].values,
                                                    Env(c).rho, Env(c).T)]
    /\ UNCHANGED modns

\* The caller has the result (or the exception): the frame is gone.
Release(c) ==
    /\ call[c].pc \in {"returned", "raised"}
    /\ call' = [call EXCEPT ![c] = IdleCall]
    /\ UNCHANGED modns

\* A sweep cell rebinds the module-level rho, T, yp (lines 156-157, 163 and
\* 193-194, 200).
SweepCell(p) ==
    /\ modns' = [modns EXCEPT !.rho = p[1], !.T = p[2], !.yp = p[3]]
    /\ UNCHANGED call

\* The steps of a call in progress.
Run(c) ==
    \/ BaselineRaise(c) \/ Baseline(c)
    \/ AlphaLow(c) \/ AlphaHigh(c) \/ KeepBaseline(c)
    \/ FsolveRaise(c) \/ FsolveStart(c) \/ FsolveEval(c) \/ FsolveStop(c)
    \/ Return(c)

\* One call at a time, with the solver's iterations as steps.
Next ==
    \/ \E a \in Args : Call(1, a)
    \/ BaselineRaise(1) \/ Baseline(1)
    \/ AlphaLow(1) \/ AlphaHigh(1) \/ KeepBaseline(1)
    \/ FsolveRaise(1) \/ FsolveStart(1) \/ FsolveEval(1) \/ FsolveStop(1)
    \/ Return(1)
    \/ Release(1)

Spec == Init /\ [][Next]_vars

\* Python runs the statements of a called function to completion.
FairSpec == Spec /\ WF_vars(Run(1))

\* Calls side by side while the sweep cells run, with each solve one step.
NextPar ==
    \/ \E c \in Slots :
          \/ \E a \in ParArgs : Call(c, a)
          \/ BaselineRaise(c) \/ Baseline(c)
          \/ AlphaLow(c) \/ AlphaHigh(c) \/ KeepBaseline(c)
          \/ FsolveRaise(c) \/ Fsolve(c)
          \/ Return(c)
          \/ Release(c)
    \/ \E p \in SweepPoints : SweepCell(p)

SpecPar == Init /\ [][NextPar]_vars

-----------------------------------------------------------------------------
(* The properties.                                                         *)

\* The tolerance of the comparisons below: 1e-3 in this arithmetic.
Tol == Dec(1, -3)

Close(a0, b0) ==
    The({(
        a = b \/ (IsFinite(a) /\ IsFinite(b) /\ FLe(FAbs(FSub(a, b)), Tol))
        ) : a \in {a0}, b \in {b0}})

\* The domain: rho > 0, T > 0, 0 < yp < 1.
Valid(a) ==
    FGt(a.rho, Zero) /\ FGt(a.T, Zero) /\ FGt(a.yp, Zero) /\ FLt(a.yp, One)

\* Valid arguments of ordinary magnitude: no product or quotient of get_Xs
\* leaves the range of a double.
Ordinary(a) ==
    /\ Valid(a)
    /\ FGe(a.rho, Dec(1, -50)) /\ FLe(a.rho, Dec(1, 50))
    /\ FGe(a.T, Dec(1, -50)) /\ FLe(a.T, Dec(1, 50))
    /\ FGe(a.yp, Dec(1, -50))

Handed(c) == call[c].pc \in {"solving", "solved", "returned"}

\* C1: a call whose arguments lie outside the domain (T <= 0, rho <= 0 or
\* yp outside (0,1)) computes nothing - no density, no guess, no solve, no
\* triple - and ends with a DomainError.
RejectsInvalidInputs ==
    \A c \in Slots :
        (call[c].pc # "idle" /\ ~Valid(call[c].args)) =>
            /\ call[c].pc \in {"called", "raised"}
            /\ call[c].dens = {} /\ call[c].built = <<>> /\ call[c].nsolve = 0
            /\ (call[c].pc = "raised" => call[c].err = "DomainError")

\* C2: a call with valid arguments returns a triple only from a solve that
\* converged (ier = 1) onto a point where the residuals are below tolerance;
\* a solve that ended otherwise is never followed by a return.
ReturnsOnlyCheckedRoots ==
    \A c \in Slots :
        (call[c].pc = "returned" /\ Valid(call[c].args)) =>
            /\ call[c].ier = 1
            /\ IsRoot(call[c].values, call[c].args.rho, call[c].args.T,
                      call[c].args.yp)

\* C3: the triple returned for valid arguments sums to 1 within tolerance.
Conservation ==
    \A c \in Slots :
        (call[c].pc = "returned" /\ Valid(call[c].args)) =>
            Close(FAdd(FAdd(call[c].Xs[1], call[c].Xs[2]), call[c].Xs[3]), One)

\* C4: the triple returned for valid arguments has Xp + Xalpha/2 equal to the
\* yp of that call within tolerance.
ChargeBalance ==
    \A c \in Slots :
        (call[c].pc = "returned" /\ Valid(call[c].args)) =>
            Close(FAdd(call[c].Xs[1], FDiv(call[c].Xs[3], Two)), call[c].args.yp)

\* Two argument lists that differ by yp -> 1 - yp.
Mirror(a, b) ==
    a.rho = b.rho /\ a.T = b.T /\ a.f64 = b.f64 /\ FEq(FAdd(a.yp, b.yp), One)

\* C5: two calls with valid arguments that differ by yp -> 1 - yp (a call at
\* yp = 0.5 is its own mirror image) return triples with Xp and Xn swapped
\* and Xalpha equal, within tolerance.
MirrorSymmetry ==
    \A c, d \in Slots :
        (/\ call[c].pc = "returned" /\ call[d].pc = "returned"
         /\ Valid(call[c].args) /\ Mirror(call[c].args, call[d].args)) =>
            /\ Close(call[c].Xs[1], call[d].Xs[2])
            /\ Close(call[c].Xs[2], call[d].Xs[1])
            /\ Close(call[c].Xs[3], call[d].Xs[3])

\* C6: every call of get_Xs that is made ends, with a triple returned or an
\* exception raised.
Terminates == (call[1].pc = "called") ~> (call[1].pc \in {"returned", "raised"})

\* A call with valid arguments returned after fsolve used up its budget of
\* evaluations.
TerminatesWitness ==
    /\ call[1].pc = "returned" /\ Valid(call[1].args)
    /\ call[1].ier = 2 /\ call[1].nfev = maxfev

\* get_Xs as a function of its arguments alone: the locals handed to
\* fsolve, the triples it can return and the exceptions it can raise.
SelectGuess(b0, a0) ==
    The({(
        IF Stiff(b) /\ FLt(a.yp, Half) THEN AlphaGuessLow(b, a.rho, a.T, a.yp)
        ELSE IF Stiff(b) /\ FGe(a.yp, Half)
             THEN AlphaGuessHigh(b, a.rho, a.T, a.yp)
        ELSE b
        ) : b \in {b0}, a \in {a0}})

SolveFrom(x0, r0, a0) ==
    The({(
        {MassFractions(IterateAt(x, r, o[1]), a.rho, a.T) :
            o \in SolveOutcomes(CanMove(x, r, a.rho, a.T, a.yp))}
        ) : x \in {x0}, r \in {r0}, a \in {a0}})

ResultsAlone(a0) ==
    The({(
        IF RaisesInMu(a) \/ RaisesInX(a) THEN {}
        ELSE SolveFrom(SeedOf(SelectGuess(BaselineGuess(a.rho, a.T, a.yp), a)),
                       Solution(a.rho, a.T, a.yp), a)
        ) : a \in {a0}})

ErrorsAlone(a) ==
    IF RaisesInMu(a) \/ RaisesInX(a) THEN {"ZeroDivisionError"} ELSE {}

AloneTable == [a \in ParArgs |-> ResultsAlone(a)]

\* C7: whatever other calls and sweep cells run in between, the module
\* constants keep their values, and a call returns a triple (or raises an
\* exception) that get_Xs gives for the same arguments when it runs alone.
Independent ==
    /\ modns.consts = ModuleConstants
    /\ \A c \in Slots :
          /\ call[c].pc = "returned" => call[c].Xs \in AloneTable[call[c].args]
          /\ call[c].pc = "raised" => call[c].err \in ErrorsAlone(call[c].args)

\* Two calls with different arguments have both returned, after a sweep cell
\* bound the module-level rho, T, yp to values that are the arguments of
\* neither.
IndependentWitness ==
    /\ call[1].pc = "returned" /\ call[2].pc = "returned"
    /\ call[1].args # call[2].args
    /\ modns.T # Unbound
    /\ \A c \in Slots : modns.T # call[c].args.T

\* C8: the baseline guess is built first; a second guess is built exactly
\* when the baseline mualphaguess is greater than the baseline munguess, by
\* the branch yp < 0.5 or else the branch yp >= 0.5; there is no third; and
\* fsolve is called once, with the locals the last guess left (those of the
\* baseline guess when it is the only one).
OneShotGuess ==
    \A c \in Slots :
        /\ call[c].nsolve <= 1
        /\ Len(call[c].built) <= 2
        /\ call[c].built # <<>> => call[c].built[1] = "baseline"
        /\ (call[c].pc = "selected" \/ Handed(c)) =>
              /\ call[c].built # <<>>
              /\ Len(call[c].built) = 2 <=>
                    FGt(call[c].base.mualphaguess, call[c].base.munguess)
              /\ Len(call[c].built) = 2 =>
                    call[c].built[2] =
                        IF FLt(call[c].args.yp, Half) THEN "low" ELSE "high"
              /\ Len(call[c].built) = 1 => call[c].g = call[c].base
        /\ call[c].pc = "selected" => call[c].nsolve = 0
        /\ Handed(c) =>
              /\ call[c].nsolve = 1
              /\ call[c].seed = <<call[c].g.mupguess, call[c].g.munguess,
                                  call[c].g.mualphaguess>>

\* A call with valid arguments returned after the branch yp >= 0.5 built
\* the second guess and fsolve was called.
OneShotGuessWitness ==
    /\ call[1].pc = "returned" /\ Valid(call[1].args)
    /\ call[1].built = <<"baseline", "high">>
    /\ call[1].nsolve = 1

\* At yp = 0.5 the second guess is that of the branch yp >= 0.5, with
\* npguess = 2*(0.5-0.499)*rho/mamu_grams.
HalfTakesHigh(c) ==
    (call[c].args.yp = Half /\ Len(call[c].built) = 2) =>
        /\ call[c].built[2] = "high"
        /\ call[c].g.npguess =
              FDiv(FMul(FMul(Two, FSub(Half, Dec(499, -3))), call[c].args.rho),
                   mamu_grams)

\* Every density computed is positive, and so is every argument np.log was
\* given.
AllPositive(c) ==
    /\ \A n \in call[c].dens : FGt(n, Zero)
    /\ \A q \in call[c].logargs : FGt(q, Zero)

\* C9 as stated: for all valid arguments, every npguess and nnguess
\* computed is strictly positive and mu never takes the logarithm of zero or
\* of a negative number; at yp = 0.5 the branch yp >= 0.5 is the one taken.
PositiveDensitiesEverywhere ==
    \A c \in Slots : Valid(call[c].args) => AllPositive(c) /\ HalfTakesHigh(c)

\* C9: for valid arguments of ordinary magnitude, every npguess and nnguess
\* computed is strictly positive and mu never takes the logarithm of zero or
\* of a negative number; at yp = 0.5 the branch yp >= 0.5 is the one taken
\* and gives npguess = 2*(0.5-0.499)*rho/mamu_grams > 0.
PositiveDensities ==
    \A c \in Slots : Ordinary(call[c].args) => AllPositive(c) /\ HalfTakesHigh(c)

\* A call at yp = 0.5 built its second guess.
PositiveDensitiesWitness ==
    /\ Ordinary(call[1].args) /\ call[1].args.yp = Half
    /\ call[1].built = <<"baseline", "high">>

LoopIsFsolve ==
    call[1].pc = "solved" =>
        <<call[1].xk, call[1].ier>> \in SolveOutcomes(call[1].canmove)

=============================================================================
